---- MODULE Spec2Model ----
(***************************************************************************)
(* Model of website_check.py: the business-day deadline computation, the   *)
(* ticker discovery, the per-fund check (fetch, date extraction, bucket    *)
(* classification, staleness evaluation) and the thread-pool scan.         *)
(*                                                                         *)
(* Dates are day numbers counted from 2025-01-01 (day 0, a Wednesday).     *)
(* A context string is modelled by the set of the keywords it contains,    *)
(* which is all the code ever asks of it (the "in" tests of lines 89-99).  *)
(***************************************************************************)
EXTENDS Integers, Sequences, FiniteSets, TLC

VARIABLES pc, index, clock, midnights, funds, started, unit, results, df, call, ret

vars == <<pc, index, clock, midnights, funds, started, unit, results, df, call, ret>>

scanVars == <<pc, index, clock, midnights, funds, started, unit, results, df>>

\* Python's None
None == [none |-> TRUE]

(***************************************************************************)
(* Bounds of the model.                                                    *)
(***************************************************************************)
\* first and last current date the deadline computation is explored on
FirstDay == 31
LastDay == 395
\* most nodes of one fetched page
MaxNodes == 2
\* most midnights the Sydney clock passes during one scan
MaxTicks == 1
\* how many days before the current date the dates of a page reach
DateSpan == 2

(***************************************************************************)
(* Calendar: datetime.date arithmetic on day numbers.                      *)
(***************************************************************************)
\* date.weekday(): Monday is 0, Sunday is 6
weekday(d) == (d + 2) % 7

\* the day of the year (from 0) the month of day-of-year doy starts on;
\* 2025, 2026 and 2027 have no 29 February
month_start(doy) ==
    IF doy >= 334 THEN 334 ELSE IF doy >= 304 THEN 304
    ELSE IF doy >= 273 THEN 273 ELSE IF doy >= 243 THEN 243
    ELSE IF doy >= 212 THEN 212 ELSE IF doy >= 181 THEN 181
    ELSE IF doy >= 151 THEN 151 ELSE IF doy >= 120 THEN 120
    ELSE IF doy >= 90 THEN 90 ELSE IF doy >= 59 THEN 59
    ELSE IF doy >= 31 THEN 31 ELSE 0

\* d.replace(day=1)
replace_day1(d) == d - (d % 365) + month_start(d % 365)

(***************************************************************************)
(* Configuration (lines 17-21) and the strings the model ranges over.      *)
(***************************************************************************)
EXCEPTION_FUNDS == <<"USTB", "BCOM", "USIG">>
FORCE_LIST == <<"ETPMAG", "ETPMPD", "ETPMPM", "ETPMPT">>
BLACKLIST == <<"INDEX", "ABOUT", "MEDIA", "LOGIN", "TERMS", "PRIVACY", "ADMIN", "FUNDS">>
DEFAULT_FUNDS == <<"ACDC", "BANK">>

Range(s) == {s[i] : i \in 1..Len(s)}

\* the /funds/xxx/ path segments an index page of the model may hold
RawMatches == {"acdc", "ACDC", "about"}

\* str.upper() on the strings of the model
upper(t) ==
    CASE t = "ustb" -> "USTB"
      [] t = "about" -> "ABOUT"
      [] t = "acdc" -> "ACDC"
      [] OTHER -> t

\* the code points of the upper-case strings, for Python's string comparison
Chars(t) ==
    CASE t = "ACDC" -> <<65, 67, 68, 67>>
      [] t = "BANK" -> <<66, 65, 78, 75>>
      [] t = "USTB" -> <<85, 83, 84, 66>>
      [] t = "ABOUT" -> <<65, 66, 79, 85, 84>>
      [] t = "ETPMAG" -> <<69, 84, 80, 77, 65, 71>>
      [] t = "ETPMPD" -> <<69, 84, 80, 77, 80, 68>>
      [] t = "ETPMPM" -> <<69, 84, 80, 77, 80, 77>>
      [] t = "ETPMPT" -> <<69, 84, 80, 77, 80, 84>>

RECURSIVE SeqLess(_, _)
SeqLess(a, b) ==
    IF b = <<>> THEN FALSE
    ELSE IF a = <<>> THEN TRUE
    ELSE IF Head(a) # Head(b) THEN Head(a) < Head(b)
    ELSE SeqLess(Tail(a), Tail(b))

\* Python's a < b on two strings
StrLess(a, b) == SeqLess(Chars(a), Chars(b))

(***************************************************************************)
(* get_last_bd (lines 44-50) and get_expectations (lines 31-42).           *)
(***************************************************************************)
RECURSIVE get_last_bd_loop(_, _, _)
get_last_bd_loop(curr, c, n) ==
    IF c < n
    THEN LET nxt == curr - 1
         IN  get_last_bd_loop(nxt, IF weekday(nxt) < 5 THEN c + 1 ELSE c, n)
    ELSE curr

get_last_bd(d, n) == get_last_bd_loop(d, 0, n)

RECURSIVE skip_weekend(_)
skip_weekend(d) == IF weekday(d) > 4 THEN skip_weekend(d - 1) ELSE d

\* the previous month's last business day (lines 34-36)
last_month(now_syd) == skip_weekend(replace_day1(now_syd) - 1)

\* <<exp_nav, exp_hold, exp_dist>> for the clock reading now_syd
get_expectations(ticker, now_syd) ==
    IF upper(ticker) \in Range(EXCEPTION_FUNDS)
    THEN <<get_last_bd(now_syd, 2), get_last_bd(now_syd, 1), last_month(now_syd)>>
    ELSE <<get_last_bd(now_syd, 1), now_syd, last_month(now_syd)>>

(***************************************************************************)
(* What one per-fund HTTP GET can end in, and what a page holds.           *)
(*   kind "timeout", "connerr": requests.get raises (line 70);             *)
(*   kind "ok", "http_error": requests.get returns a response whose body   *)
(*   is page; requests raises nothing for a 4xx/5xx status.                *)
(* A page is the list of its span/div nodes, the set of dates whose        *)
(* '%d %b %Y' text occurs in soup.get_text(), and whether html.parser      *)
(* rejects the markup (line 71 raises).                                    *)
(* A node: asof = its text contains "as of"; text = <<"date", d>> when the  *)
(* cleaned text is the date d in '%d %b %Y', <<"junk">> otherwise; ctx =   *)
(* the keywords that occur in the text of its parent and grandparent.      *)
(***************************************************************************)
\* "kw in x['ctx']"
in(kw, ctx) == kw \in ctx

\* requests.get(url, headers=HEADERS, timeout=10): TRUE when it raises
requests_get_raises(resp) == resp.kind \in {"timeout", "connerr"}

\* BeautifulSoup(r.text, 'html.parser'): TRUE when it raises
soup_raises(resp) == resp.page.raises

\* parse_date (lines 24-29): the parsed date, or None when strptime raises
parse_date(text) == IF text[1] = "date" THEN [dt |-> text[2]] ELSE None

is_date_node(c) == c.asof /\ parse_date(c.text) # None

date_record(c) == [dt |-> parse_date(c.text).dt, ctx |-> c.ctx]

\* lines 74-83: the nodes with "as of" whose date parses, in page order
RECURSIVE gather_dates(_)
gather_dates(nodes) ==
    IF nodes = <<>> THEN <<>>
    ELSE IF is_date_node(Head(nodes))
         THEN <<date_record(Head(nodes))>> \o gather_dates(Tail(nodes))
         ELSE gather_dates(Tail(nodes))

\* line 89
nav_qualifies(x) == in("nav", x.ctx) \/ in("net asset", x.ctx)

\* line 94
perf_qualifies(x) == in("return", x.ctx)

\* line 99
hold_qualifies(x) ==
    (in("holding", x.ctx) \/ in("characteristics", x.ctx)) /\ ~in("return", x.ctx)

\* replaces with the comparison turned round: the loop keeps the oldest record
replaces_oldest(x, res) == res = None \/ x.dt < res.dt

\* "res is None or x['dt'] > res['dt']" (lines 90, 95, 100)
replaces(x, res) == res = None \/ x.dt > res.dt

\* one "for x in all_dates" loop over the qualifying records, from res
RECURSIVE scan_bucket(_, _)
scan_bucket(xs, res) ==
    IF xs = <<>> THEN res
    ELSE scan_bucket(Tail(xs), IF replaces(Head(xs), res) THEN Head(xs) ELSE res)

nav_res(all_dates) == scan_bucket(SelectSeq(all_dates, nav_qualifies), None)

perf_res(all_dates) == scan_bucket(SelectSeq(all_dates, perf_qualifies), None)

hold_res(all_dates) == scan_bucket(SelectSeq(all_dates, hold_qualifies), None)

\* lines 103-110: one status of the report
status(res, exp) ==
    IF res # None
    THEN IF res.dt >= exp THEN <<"Ok", res.dt>> ELSE <<"Late", res.dt>>
    ELSE <<"Missing">>

\* lines 113-115
dist_status(page, exp_dist) ==
    IF exp_dist \in page.text THEN <<"Ok", exp_dist>> ELSE <<"Missing">>

\* line 67
new_report(ticker) ==
    [Ticker |-> ticker, NAV |-> <<"Checking">>, Holdings |-> <<"Checking">>,
     Perf |-> <<"Checking">>, Dist |-> <<"Checking">>]

\* error_report with the other fields settled as well
error_report_all(ticker) ==
    [Ticker |-> ticker, NAV |-> <<"Error">>, Holdings |-> <<"Missing">>,
     Perf |-> <<"Missing">>, Dist |-> <<"Missing">>]

\* line 117: the except clause, reached before any field is assigned
error_report(ticker) == [new_report(ticker) EXCEPT !.NAV = <<"Error">>]

\* lines 85-115 on the parsed page
evaluated_report(ticker, page, exp) ==
    LET all_dates == gather_dates(page.nodes)
    IN  [Ticker |-> ticker,
         NAV |-> status(nav_res(all_dates), exp[1]),
         Perf |-> status(perf_res(all_dates), exp[1]),
         Holdings |-> status(hold_res(all_dates), exp[2]),
         Dist |-> dist_status(page, exp[3])]

\* check_fund (lines 63-118); now_syd is the clock reading of line 66
check_fund(ticker, now_syd, resp) ==
    LET exp == get_expectations(ticker, now_syd)
    IN  IF requests_get_raises(resp) THEN error_report(ticker)
        ELSE IF soup_raises(resp) THEN error_report(ticker)
        ELSE evaluated_report(ticker, resp.page, exp)

(***************************************************************************)
(* get_all_tickers (lines 53-61). disc is what the index GET ends in:      *)
(* kind "ok" with the path segments the regex finds, or "connerr" when     *)
(* requests.get raises. The call passes no timeout.                        *)
(***************************************************************************)
len(t) == Len(Chars(t))

\* sorted(...) of a list built from a set of distinct strings: the k-th
\* entry is the string with k - 1 smaller ones
sorted_tickers(S) ==
    [k \in 1..Cardinality(S) |->
        CHOOSE t \in S : Cardinality({u \in S : StrLess(u, t)}) = k - 1]

\* line 61
fallback_tickers == FORCE_LIST \o DEFAULT_FUNDS

get_all_tickers(disc) ==
    IF disc.kind = "connerr" THEN fallback_tickers
    ELSE LET candidates == {upper(m) : m \in disc.matches} \cup Range(FORCE_LIST)
         IN  sorted_tickers({t \in candidates : t \notin Range(BLACKLIST) /\ len(t) >= 3})

(***************************************************************************)
(* sorted(results, key=lambda x: x['Ticker']) (line 150). The tickers of   *)
(* one scan are distinct (a sorted set, or the fallback list), so no two   *)
(* reports compare equal.                                                  *)
(***************************************************************************)
\* the key comparison of the sort: the 'Ticker' strings
ticker_before(a, b) == StrLess(a.Ticker, b.Ticker)

\* sorted_results without the sort: the reports stay in arrival order
unsorted_results(rs) == rs

sorted_results(rs) == SortSeq(rs, ticker_before)

(***************************************************************************)
(* The scan (lines 134-150).                                               *)
(*   pc: "idle" before the button is pressed, "discover" while             *)
(*   get_all_tickers waits for the index page, "pool" while the executor   *)
(*   runs the units, "done" once the sorted results exist.                 *)
(*   index: how the index GET of get_all_tickers ended ("unsent",          *)
(*   "pending", "ok" or "raised").                                         *)
(*   clock: today's date in Australia/Sydney; midnights: how often it has  *)
(*   advanced. funds: the submitted tickers. started: how many units the   *)
(*   workers have taken off the executor's FIFO queue. unit[t]: "queued",  *)
(*   "fetching" with the clock reading of line 66, or "done" with that     *)
(*   reading and whether the except clause of line 117 ran.                *)
(*   results: the reports in the order as_completed delivered them.        *)
(***************************************************************************)
\* line 142
MaxWorkers == 10

\* the day a scan of the model starts on: Friday 2025-11-28
ScanDays == {331}

\* what the index GET can return or raise
Discoveries ==
    [kind : {"ok"}, matches : SUBSET RawMatches] \cup [kind : {"connerr"}, matches : {{}}]

NoPage == [nodes |-> <<>>, text |-> {}, raises |-> FALSE]

\* the fund page served during a scan that starts on day d
ScanPage(d) ==
    [nodes |-> << [asof |-> TRUE, text |-> <<"date", d - 1>>, ctx |-> {"nav"}],
                  [asof |-> TRUE, text |-> <<"date", d>>, ctx |-> {"holding"}] >>,
     text |-> {last_month(d)},
     raises |-> FALSE]

\* what one per-fund GET can end in during a scan that started on day d
ScanResponses(d) ==
    {[kind |-> "timeout", page |-> NoPage],
     [kind |-> "connerr", page |-> NoPage],
     [kind |-> "ok", page |-> [NoPage EXCEPT !.raises = TRUE]],
     [kind |-> "ok", page |-> ScanPage(d)],
     [kind |-> "http_error", page |-> ScanPage(d)]}

Queued == [st |-> "queued"]

\* TRUE when check_fund leaves its try block through the except clause
raised(resp) == requests_get_raises(resp) \/ soup_raises(resp)

running == {t \in DOMAIN unit : unit[t].st = "fetching"}

\* nothing scanned yet, on day d
Idle(d) ==
    /\ pc = "idle"
    /\ index = "unsent"
    /\ clock = d
    /\ midnights = 0
    /\ funds = <<>>
    /\ started = 0
    /\ unit = <<>>
    /\ results = <<>>
    /\ df = <<>>

ScanInit == \E d \in ScanDays : Idle(d)

\* line 123: the button is pressed, line 135 sends the index GET
Trigger ==
    /\ pc = "idle"
    /\ pc' = "discover"
    /\ index' = "pending"
    /\ UNCHANGED <<clock, midnights, funds, started, unit, results, df, call, ret>>

\* lines 135-143: the index GET ends, every ticker is submitted to the executor
Discover ==
    /\ pc = "discover"
    /\ \E disc \in Discoveries :
          /\ index' = IF disc.kind = "connerr" THEN "raised" ELSE "ok"
          /\ funds' = get_all_tickers(disc)
          /\ unit' = [t \in Range(get_all_tickers(disc)) |-> Queued]
    /\ pc' = "pool"
    /\ UNCHANGED <<clock, midnights, started, results, df, call, ret>>

\* a free worker takes the next submitted unit; line 66 reads the clock
StartUnit ==
    /\ pc = "pool"
    /\ started < Len(funds)
    /\ Cardinality(running) < MaxWorkers
    /\ unit' = [unit EXCEPT ![funds[started + 1]] = [st |-> "fetching", now_syd |-> clock]]
    /\ started' = started + 1
    /\ UNCHANGED <<pc, index, clock, midnights, funds, results, df, call, ret>>

\* lines 69-118 and 145-147: the GET of one unit ends, the unit returns its
\* report, as_completed hands the future to the main thread, which appends it
FinishUnit ==
    /\ pc = "pool"
    /\ \E t \in running :
          \E resp \in ScanResponses(clock - midnights) :
             /\ results' = Append(results, check_fund(t, unit[t].now_syd, resp))
             /\ unit' = [unit EXCEPT ![t] = [st |-> "done", now_syd |-> unit[t].now_syd,
                                              raised |-> raised(resp)]]
    /\ UNCHANGED <<pc, index, clock, midnights, funds, started, df, call, ret>>

\* line 150, once as_completed is exhausted and the executor has shut down
SortResults ==
    /\ pc = "pool"
    /\ Len(results) = Len(funds)
    /\ df' = sorted_results(results)
    /\ pc' = "done"
    /\ UNCHANGED <<index, clock, midnights, funds, started, unit, results, call, ret>>

\* midnight passes in Australia/Sydney while the scan is under way
Tick ==
    /\ pc \in {"discover", "pool"}
    /\ midnights < MaxTicks
    /\ clock' = clock + 1
    /\ midnights' = midnights + 1
    /\ UNCHANGED <<pc, index, funds, started, unit, results, df, call, ret>>

Init == ScanInit /\ call = None /\ ret = None

\* one scan during which the Sydney date does not change
Next == Trigger \/ Discover \/ StartUnit \/ FinishUnit \/ SortResults

Spec == Init /\ [][Next]_vars

\* The executor's workers run, every per-fund GET ends within its timeout
\* (line 70) and the main thread runs on; nothing bounds the index GET of
\* line 55, and nothing makes the user press the button.
FairSpec ==
    Spec /\ WF_vars(StartUnit) /\ WF_vars(FinishUnit) /\ WF_vars(SortResults)

\* one scan during which midnight may pass
MidnightNext == Next \/ Tick

MidnightSpec == Init /\ [][MidnightNext]_vars

(***************************************************************************)
(* The functions on their own: call holds the arguments of one call, ret   *)
(* what it returned (None before it has).                                  *)
(***************************************************************************)
\* the current dates check_fund is explored on: Tue 2025-11-25, Sat 2025-11-29
FundDays == {328, 332}

\* a standard and an exception fund
FundTickers == {"ACDC", "USTB"}

\* the keyword sets of the ancestor texts of the model's nodes
Contexts ==
    {{"nav"}, {"net asset", "characteristics"}, {"nav", "holding"}, {"nav", "return"},
     {"return"}, {"holding"}, {"characteristics", "return"}}

\* the span/div nodes a page fetched on day d may hold
Nodes(d) ==
    [asof : {TRUE}, text : {<<"date", x>> : x \in (d - DateSpan)..d}, ctx : Contexts]
    \cup {[asof |-> TRUE, text |-> <<"junk">>, ctx |-> {"nav"}],
          [asof |-> FALSE, text |-> <<"date", d - 1>>, ctx |-> {"nav", "return"}]}

RECURSIVE SeqsUpTo(_, _)
SeqsUpTo(S, n) ==
    IF n = 0 THEN {<<>>}
    ELSE LET shorter == SeqsUpTo(S, n - 1)
         IN  shorter \cup {Append(q, x) : q \in {r \in shorter : Len(r) = n - 1}, x \in S}

Pages(d) ==
    [nodes : SeqsUpTo(Nodes(d), MaxNodes), text : SUBSET {last_month(d)}, raises : {FALSE}]
    \cup {[NoPage EXCEPT !.raises = TRUE]}

FundResponses(d) ==
    [kind : {"ok", "http_error"}, page : Pages(d)]
    \cup [kind : {"timeout", "connerr"}, page : {NoPage}]

FundInit ==
    /\ \E t \in FundTickers, d \in FundDays :
          \E resp \in FundResponses(d) :
             /\ Idle(d)
             /\ call = [fn |-> "check_fund", ticker |-> t, now_syd |-> d, resp |-> resp]
    /\ ret = None

CheckFund ==
    /\ call.fn = "check_fund"
    /\ ret = None
    /\ ret' = [value |-> check_fund(call.ticker, call.now_syd, call.resp)]
    /\ UNCHANGED <<scanVars, call>>

FundSpec == FundInit /\ [][CheckFund]_vars

\* the identifiers get_expectations is explored on
ExpTickers == {"ACDC", "USTB", "ustb"}

ExpInit ==
    /\ \E t \in ExpTickers, d \in FirstDay..LastDay :
          /\ Idle(d)
          /\ call = [fn |-> "get_expectations", ticker |-> t, now_syd |-> d]
    /\ ret = None

GetExpectations ==
    /\ call.fn = "get_expectations"
    /\ ret = None
    /\ ret' = [value |-> get_expectations(call.ticker, call.now_syd)]
    /\ UNCHANGED <<scanVars, call>>

ExpSpec == ExpInit /\ [][GetExpectations]_vars

(***************************************************************************)
(* Properties.                                                             *)
(***************************************************************************)
Tickers(rs) == {rs[i].Ticker : i \in 1..Len(rs)}

Ascending(ts) == \A i, j \in 1..Len(ts) : i < j => StrLess(ts[i], ts[j])

\* C1: once a scan is triggered it eventually completes with a report for
\* every discovered identifier, whichever per-fund fetches fail; no step of
\* the scan, the discovery fetch included, blocks forever.
ScanCompletes ==
    (pc = "discover") ~> (pc = "done" /\ Tickers(df) = Range(funds))

\* Once the index GET has ended, the scan does complete under FairSpec: the
\* index GET is the only step that can block.
PoolCompletes ==
    (pc = "pool") ~> (pc = "done" /\ Tickers(df) = Range(funds))

\* C2: whatever the order in which the units complete, the final output holds
\* exactly one report per submitted identifier, ascending by identifier, so
\* the order of the output is fixed by the identifier set alone.
OutputSortedOnePerFund ==
    pc = "done" =>
        /\ Len(df) = Len(funds)
        /\ Tickers(df) = Range(funds)
        /\ Ascending([i \in 1..Len(df) |-> df[i].Ticker])

\* the fallback list was scanned and the reports arrived in another order
\* than the sorted one
ArrivedOutOfOrder ==
    /\ pc = "done"
    /\ index = "raised"
    /\ results # df
    /\ ~Ascending([i \in 1..Len(results) |-> results[i].Ticker])

\* the report of a standard fund whose fetch and extraction succeed in a scan
\* of day d: NAV as of d - 1, holdings as of d, no performance date, and the
\* distribution date of the previous month's end
FailureFreeReport(t, d) ==
    [Ticker |-> t, NAV |-> <<"Ok", d - 1>>, Holdings |-> <<"Ok", d>>,
     Perf |-> <<"Missing">>, Dist |-> <<"Ok", 303>>]

FailureReport(t) ==
    [Ticker |-> t, NAV |-> <<"Error">>, Holdings |-> <<"Checking">>,
     Perf |-> <<"Checking">>, Dist |-> <<"Checking">>]

ReportIsolated(r) ==
    /\ unit[r.Ticker].st = "done"
    /\ unit[r.Ticker].raised => r = FailureReport(r.Ticker)
    /\ ~unit[r.Ticker].raised => r = FailureFreeReport(r.Ticker, clock)

\* C3: a unit whose fetch or extraction raises reports NAV = Error with perf,
\* holdings and dist still at the "Checking" placeholder, and every other
\* unit reports the fully evaluated statuses it reports when no unit fails.
FailureIsolated ==
    /\ \A i \in 1..Len(results) : ReportIsolated(results[i])
    /\ \A i \in 1..Len(df) : ReportIsolated(df[i])

\* one of six units failed, the other five did not
OneOfSixFailed ==
    /\ pc = "done"
    /\ Len(df) = 6
    /\ Cardinality({t \in Range(funds) : unit[t].raised}) = 1

\* C4: a per-fund fetch that ends in a timeout, a connection error or a
\* non-success HTTP response yields the failure report (NAV = Error), never
\* statuses computed from the response.
NonSuccessIsFailure ==
    (ret # None /\ call.fn = "check_fund"
        /\ call.resp.kind \in {"timeout", "connerr", "http_error"})
    => ret.value = FailureReport(call.ticker)

\* the date records of the page of the call, as the set of their nodes
CallRecords ==
    {i \in 1..Len(call.resp.page.nodes) :
        /\ call.resp.page.nodes[i].asof
        /\ call.resp.page.nodes[i].text[1] = "date"}

RecDate(i) == call.resp.page.nodes[i].text[2]

RecCtx(i) == call.resp.page.nodes[i].ctx

Returned == ret # None /\ call.fn = "check_fund" /\ ~raised(call.resp)

\* C5: the record selected for the NAV bucket has a context with "nav" or
\* "net asset" and with neither "holding" nor "characteristics".
NavExcludesHoldings ==
    Returned =>
        LET sel == nav_res(gather_dates(call.resp.page.nodes))
        IN  /\ sel # None =>
                  /\ "nav" \in sel.ctx \/ "net asset" \in sel.ctx
                  /\ "holding" \notin sel.ctx
                  /\ "characteristics" \notin sel.ctx
            /\ (\A i \in CallRecords :
                    "holding" \in RecCtx(i) \/ "characteristics" \in RecCtx(i))
               => ret.value.NAV = <<"Missing">>

\* C6: the record selected for the NAV bucket is never dated the current
\* date; when the only NAV-context records are dated today, NAV is Missing.
NavNeverToday ==
    Returned =>
        LET sel == nav_res(gather_dates(call.resp.page.nodes))
        IN  /\ sel # None => sel.dt # call.now_syd
            /\ (\A i \in CallRecords :
                    ("nav" \in RecCtx(i) \/ "net asset" \in RecCtx(i))
                    => RecDate(i) = call.now_syd)
               => ret.value.NAV = <<"Missing">>

\* C7: for every identifier and every current date, weekends included, the
\* three dates get_expectations returns fall on Monday to Friday.
DeadlinesOnWeekdays ==
    (ret # None /\ call.fn = "get_expectations")
    => \A i \in 1..3 : weekday(ret.value[i]) < 5

\* C8: when the discovery fetch fails the returned list holds exactly the
\* force-include and default fallback identifiers, in ascending order.
FallbackSorted ==
    index = "raised" =>
        /\ Range(funds) = Range(FORCE_LIST) \cup Range(DEFAULT_FUNDS)
        /\ Len(funds) = Len(FORCE_LIST) + Len(DEFAULT_FUNDS)
        /\ Ascending(funds)

\* the records of the call whose context has one of the keywords yes and
\* none of the keywords no
Qualifiers(yes, no) ==
    {i \in CallRecords : RecCtx(i) \cap yes # {} /\ RecCtx(i) \cap no = {}}

Latest(Q) == CHOOSE d \in {RecDate(i) : i \in Q} : \A i \in Q : RecDate(i) <= d

Expected(Q, deadline) ==
    IF Q = {} THEN <<"Missing">>
    ELSE IF Latest(Q) >= deadline THEN <<"Ok", Latest(Q)>>
    ELSE <<"Late", Latest(Q)>>

\* the deadlines of the call: T-2 and T-1 business days for an exception
\* fund, T-1 and the current date for any other
NavDeadline ==
    IF call.ticker \in {"USTB", "BCOM", "USIG"}
    THEN get_last_bd(call.now_syd, 2) ELSE get_last_bd(call.now_syd, 1)

HoldingsDeadline ==
    IF call.ticker \in {"USTB", "BCOM", "USIG"}
    THEN get_last_bd(call.now_syd, 1) ELSE call.now_syd

\* C9: for a fetched page each of the NAV, performance and holdings statuses
\* is Missing iff its bucket has no qualifying record, otherwise Ok iff the
\* latest qualifying date is on or after the deadline and Late otherwise; the
\* deadline is the NAV deadline for NAV and performance, the holdings
\* deadline for holdings.
StatusesFollowBuckets ==
    Returned =>
        /\ ret.value.NAV = Expected(Qualifiers({"nav", "net asset"}, {}), NavDeadline)
        /\ ret.value.Perf = Expected(Qualifiers({"return"}, {}), NavDeadline)
        /\ ret.value.Holdings =
              Expected(Qualifiers({"holding", "characteristics"}, {"return"}),
                       HoldingsDeadline)

\* two NAV records, the later one first on the page, the earlier one late;
\* the page has a late holdings record and no performance record
LaterRecordFirst ==
    /\ Returned
    /\ Len(call.resp.page.nodes) = 2
    /\ Qualifiers({"nav", "net asset"}, {}) = {1, 2}
    /\ RecDate(1) > RecDate(2)
    /\ RecDate(1) >= NavDeadline
    /\ RecDate(2) < NavDeadline
    /\ ret.value.NAV = <<"Ok", RecDate(1)>>
    /\ ret.value.Perf = <<"Missing">>
    /\ ret.value.Holdings[1] = "Late"

SameCategory(t1, t2) ==
    (t1 \in Range(EXCEPTION_FUNDS)) = (t2 \in Range(EXCEPTION_FUNDS))

\* C10: within one scan the deadlines of any two funds of the same category
\* are equal, also when midnight passes while units are queued or running.
OneDatePerScan ==
    pc = "done" =>
        \A t1, t2 \in Range(funds) :
            SameCategory(t1, t2)
            => get_expectations(t1, unit[t1].now_syd) = get_expectations(t2, unit[t2].now_syd)

====
